---- MODULE Spec2Model ----
(***************************************************************************)
(* The pffeed relay: upstream "create" frames are enriched with metadata   *)
(* fetched through mirrored gateways, queued, and handed to the browser    *)
(* clients one per pacer tick.                                             *)
(*                                                                         *)
(* The repository holds four historical variants of server.js:             *)
(*   "bundle"  src/backend/server.js   1-229  refine + coinId + bundles    *)
(*   "fast"    src/backend/server.js 231-371  queue the enriched event     *)
(*   "logged"  src/unnamed/part_001    1-184  same, with byte counters     *)
(*   "refine"  src/unnamed/part_001  186-388  refine, no coinId            *)
(* The variable `variant` says which one runs.  The browser pages          *)
(* (src/frontend/script.js, src/frontend/pixi-script.js and the earlier    *)
(* pixi script src/unnamed/part_000) are modelled by the card list they    *)
(* keep; `clientVariant` says which page script runs.                      *)
(*                                                                         *)
(* Strings are sequences of tokens.  A token is one character, or a piece  *)
(* of a URL that the code never looks inside ("https://ipfs.io", "/ipfs/", *)
(* a content hash).                                                        *)
(***************************************************************************)
EXTENDS Integers, Sequences, FiniteSets, TLC

(***************************************************************************)
(* JavaScript values                                                       *)
(***************************************************************************)
Undef == [t |-> "undefined", s |-> <<>>, n |-> 0]
Null == [t |-> "null", s |-> <<>>, n |-> 0]
Str(x) == [t |-> "string", s |-> x, n |-> 0]
Num(k) == [t |-> "number", s |-> <<>>, n |-> k]

\* An object (a function from field names to values) is no primitive value.
IsObject(v) == DOMAIN v # {"t", "s", "n"}

\* JavaScript truthiness: undefined, null, "" and 0 are falsy.
Truthy(v) ==
  IF IsObject(v) THEN TRUE
  ELSE CASE v.t = "undefined" -> FALSE
         [] v.t = "null" -> FALSE
         [] v.t = "string" -> v.s # <<>>
         [] v.t = "number" -> v.n # 0
         [] OTHER -> TRUE

\* a || b
Or(a, b) == IF Truthy(a) THEN a ELSE b

IsString(v) == ~IsObject(v) /\ v.t = "string"

(***************************************************************************)
(* String primitives                                                       *)
(***************************************************************************)
Rep(c, k) == [i \in 1..k |-> c]

\* First index at which pat occurs in s, 0 when it does not occur.
IndexOf(s, pat) ==
  LET hits == {i \in 1..(Len(s) - Len(pat) + 1) : SubSeq(s, i, i + Len(pat) - 1) = pat}
  IN IF hits = {} THEN 0 ELSE CHOOSE i \in hits : \A j \in hits : i <= j

\* String.prototype.replace(pat, rep) with a string pattern: the first
\* occurrence only.
ReplaceFirst(s, pat, rep) ==
  LET i == IndexOf(s, pat)
  IN IF i = 0 THEN s
     ELSE SubSeq(s, 1, i - 1) \o rep \o SubSeq(s, i + Len(pat), Len(s))

\* String.prototype.split(sep) for a one-token separator: the pieces between
\* the occurrences of sep (always at least one piece).
RECURSIVE Split(_, _)
Split(s, sep) ==
  LET i == IndexOf(s, <<sep>>)
  IN IF i = 0 THEN <<s>>
     ELSE <<SubSeq(s, 1, i - 1)>> \o Split(SubSeq(s, i + 1, Len(s)), sep)

(***************************************************************************)
(* Program constants                                                       *)
(***************************************************************************)
IPFS_SEP == "/ipfs/"

IPFS_GATEWAYS ==
  << <<"https://ipfs.io", IPFS_SEP>>,
     <<"https://gateway.pinata.cloud", IPFS_SEP>>,
     <<"https://dweb.link", IPFS_SEP>> >>

\* The literal prefix enrichTokenData looks for in the uri.
URI_PREFIX == <<"https://ipfs.io", IPFS_SEP>>

BUNDLE_SIZE == 8

RECONNECT_DELAY_MS == 5000

DESC_CAP == 35

ELLIPSIS == <<".", ".", ".">>

PINATA_PREFIX == <<"https://pump.mypinata.cloud", IPFS_SEP>>

PINATA_QUERY == <<"?img-width=256&img-dpr=2&img-onerror=redirect">>

Variants == {"bundle", "fast", "logged", "refine"}

Refining == {"bundle", "refine"}

Counting == {"bundle", "logged", "refine"}

(***************************************************************************)
(* processMetadataImage: the IPFS link rewritten to pump.mypinata.cloud.   *)
(* The result is [threw, value]: imageUrl.split on a truthy value that is  *)
(* no string is a TypeError.                                               *)
(***************************************************************************)
processMetadataImage(imageUrl) ==
  IF ~Truthy(imageUrl) THEN [threw |-> FALSE, value |-> Str(<<>>)]
  ELSE IF ~IsString(imageUrl) THEN [threw |-> TRUE, value |-> Undef]
  ELSE LET parts == Split(imageUrl.s, IPFS_SEP)
       IN IF Len(parts) = 2
          THEN [threw |-> FALSE,
                value |-> Str(PINATA_PREFIX \o parts[2] \o PINATA_QUERY)]
          ELSE [threw |-> FALSE, value |-> imageUrl]

(***************************************************************************)
(* The description made single-line and truncated (message handler).       *)
(***************************************************************************)
WhiteSpace == {" ", "\t", "\n", "\r"}

\* .replace(/\r?\n|\r/g, " ")
RECURSIVE BreaksToSpaces(_)
BreaksToSpaces(s) ==
  IF s = <<>> THEN <<>>
  ELSE IF Len(s) >= 2 /\ s[1] = "\r" /\ s[2] = "\n"
       THEN <<" ">> \o BreaksToSpaces(SubSeq(s, 3, Len(s)))
  ELSE IF s[1] \in {"\n", "\r"}
       THEN <<" ">> \o BreaksToSpaces(Tail(s))
  ELSE <<s[1]>> \o BreaksToSpaces(Tail(s))

\* .replace(/\s+/g, " ")
RECURSIVE CollapseSpaces(_)
CollapseSpaces(s) ==
  IF s = <<>> THEN <<>>
  ELSE IF s[1] \in WhiteSpace
       THEN IF Len(s) >= 2 /\ s[2] \in WhiteSpace
            THEN CollapseSpaces(Tail(s))
            ELSE <<" ">> \o CollapseSpaces(Tail(s))
  ELSE <<s[1]>> \o CollapseSpaces(Tail(s))

\* .trim()
RECURSIVE TrimLeft(_)
TrimLeft(s) ==
  IF s # <<>> /\ s[1] \in WhiteSpace THEN TrimLeft(Tail(s)) ELSE s

RECURSIVE TrimRight(_)
TrimRight(s) ==
  IF s # <<>> /\ s[Len(s)] \in WhiteSpace
  THEN TrimRight(SubSeq(s, 1, Len(s) - 1)) ELSE s

Trim(s) == TrimRight(TrimLeft(s))

\* A faulty singleLineDesc: the text is trimmed and nothing else.
singleLineDescTrimOnly(s) == Trim(s)

singleLineDesc(s) == Trim(CollapseSpaces(BreaksToSpaces(s)))

\* A faulty finalDesc: the text is cut at the cap and no marker is added.
finalDescNoMarker(s) ==
  LET d == singleLineDesc(s)
  IN IF Len(d) > DESC_CAP THEN SubSeq(d, 1, DESC_CAP) ELSE d

finalDesc(s) ==
  LET d == singleLineDesc(s)
  IN IF Len(d) > DESC_CAP THEN SubSeq(d, 1, DESC_CAP) \o ELLIPSIS ELSE d

(***************************************************************************)
(* JavaScript objects are functions from field names to values.            *)
(***************************************************************************)
\* obj.f: undefined when the object has no such field.
Get(obj, f) == IF f \in DOMAIN obj THEN obj[f] ELSE Undef

\* { ...obj, <fields of upd> }
Spread(obj, upd) ==
  [f \in DOMAIN obj \cup DOMAIN upd |-> IF f \in DOMAIN upd THEN upd[f] ELSE obj[f]]

Range(q) == {q[i] : i \in 1..Len(q)}

RECURSIVE SumOver(_, _)
SumOver(S, w) ==
  IF S = {} THEN 0
  ELSE LET x == CHOOSE y \in S : TRUE IN w[x] + SumOver(S \ {x}, w)

(***************************************************************************)
(* Bounds of the model and the inputs the environment draws from           *)
(***************************************************************************)
MaxEvents == 2

MaxSockets == 3

MaxClients == 2

MaxBurst == 9

MaxCoins == 17

MaxMessages == 3

InnerHeight == 400

\* The longest run of one letter in a drawn description.
MaxRun == 20

ClientIds == 1..MaxClients

\* A single browser.
Viewer == {c \in ClientIds : \A d \in ClientIds : c <= d}

Mint(i) == Str(<<"mint", ToString(i)>>)

IpfsIoUri == Str(<<"https://ipfs.io", IPFS_SEP, "QmMeta">>)

CfIpfsUri == Str(<<"https://cf-ipfs.com", IPFS_SEP, "QmMeta">>)

\* A description of 40 characters with a CR LF and a tab in it.
LongDesc == Str(Rep("a", 20) \o <<"\r", "\n", "\t">> \o Rep("b", 20))

IpfsImage == Str(<<"https://ipfs.io", IPFS_SEP, "QmImg">>)

\* The i-th create frame of the upstream feed: mint is the token's unique
\* identifier.  A frame of the feed carries txType, mint, name, symbol, uri.
RawFrame(i, uri) ==
  [txType |-> Str(<<"create">>), mint |-> Mint(i), name |-> Str(<<"N">>),
   symbol |-> Str(<<"S">>), uri |-> uri]

\* The same frame without its uri field.
RawFrameNoUri(i) ==
  [txType |-> Str(<<"create">>), mint |-> Mint(i), name |-> Str(<<"N">>),
   symbol |-> Str(<<"S">>)]

\* A frame that carries a description and an image of its own.
RawFrameOwn(i, uri) ==
  Spread(RawFrame(i, uri),
         [description |-> Str(<<"o", "w", "n">>), image |-> Str(<<"own.png">>)])

RawEvents(i) ==
  {RawFrame(i, IpfsIoUri), RawFrame(i, CfIpfsUri), RawFrameNoUri(i),
   RawFrameOwn(i, IpfsIoUri)}

BurstEvents(i) == {RawFrameNoUri(i)}

\* What else the upstream socket can deliver.  A frame on the wire is its
\* text: either the JSON text of a value, or no JSON at all.
WireJson(v) == [json |-> TRUE, value |-> v]

WireGarbage == [json |-> FALSE]

OtherFrames ==
  {WireGarbage,
   WireJson(Null),
   WireJson(Num(7)),
   WireJson([message |-> Str(<<"Successfully subscribed.">>)]),
   WireJson([txType |-> Str(<<"buy">>), mint |-> Mint(1)]),
   WireJson([txType |-> Str(<<"Create">>), mint |-> Mint(1)]),
   WireJson(RawFrameNoUri(1))}

\* Metadata documents a gateway can answer with (response.data).
DocFull ==
  [name |-> Str(<<"DN">>), symbol |-> Str(<<"DS">>), description |-> LongDesc,
   image |-> IpfsImage]

DocBadImage == [name |-> Str(<<"DN">>), image |-> Num(7)]

DocBadDesc == [symbol |-> Str(<<"DS">>), description |-> Num(7)]

\* An empty body or the JSON text null: response.data is falsy.
DocNull == Null

Docs == {DocFull, DocBadImage, DocBadDesc, DocNull}

\* No document: metadata stays undefined.
NoDoc == Undef

(***************************************************************************)
(* State                                                                   *)
(***************************************************************************)
VARIABLES
  variant,              \* which server.js runs
  sockets,              \* every upstream socket connectWebSocket made: [readyState, subs]
  timers,               \* pending setTimeout(connectWebSocket, delay) callbacks: their delays
  nFrames,              \* create frames received so far
  inflight,             \* message handlers suspended at `await axios.get`
  eventQueue,
  nextCoinId,
  currentBundle,
  bytesSentThisMinute,
  messagesThisMinute,
  clients,              \* wss.clients: readyState of each, "NONE" when not in the set
  sent,                 \* what the last step sent to each client (client.send)
  done,                 \* the enrichTokenData call the last step completed, if any
  pushed,               \* history: the mints pushed onto eventQueue, in push order
  pushedIds,            \* history: the coinId field of every event pushed
  bundled,              \* history: the key sets of the decisionBundles broadcast
  handed,               \* history: the mints the pacer handed to broadcastToClients
  learned               \* history: the coinIds whose decision each connection was sent

\* The browser page.
VARIABLES
  clientVariant,        \* which page script runs, "none" when no page is open
  innerHeight,          \* window.innerHeight when the page was loaded
  activeCoins,          \* the cards on show, newest first: [id, coinId, y, height]
  pendingCards,         \* cards whose createCoinContainer awaits its texture
  coinIdToContainer,
  coinDecisions,
  nReceived,            \* messages received so far
  goneCards,            \* history: the ids of the cards removed
  fresh,                \* history: the ids of the cards inserted since the last frame
  seen                  \* what the page's last step did

rendererVars ==
  <<clientVariant, innerHeight, activeCoins, pendingCards, coinIdToContainer, coinDecisions,
    nReceived, goneCards, fresh, seen>>

serverVars ==
  <<variant, sockets, timers, nFrames, inflight, eventQueue, nextCoinId,
    currentBundle, bytesSentThisMinute, messagesThisMinute, clients, sent, done,
    pushed, pushedIds, bundled, handed, learned>>

\* One call of a function of the message handler, on its own.
VARIABLES
  call,                 \* the function called and its argument, [fn, arg]
  result                \* what the call returned, NoResult before it has

unitVars == <<call, result>>

vars == <<serverVars, rendererVars, unitVars>>

upstreamVars == <<sockets, timers>>

queueVars == <<eventQueue, nextCoinId, currentBundle, pushed, pushedIds, bundled>>

counterVars == <<bytesSentThisMinute, messagesThisMinute>>

NoDone == [called |-> FALSE]

NothingSent == [c \in ClientIds |-> <<>>]

\* pumpPortalSocket: the socket the last connectWebSocket call assigned.
pumpPortalSocket == Len(sockets)

\* connectWebSocket(): a new socket, connecting.
connectWebSocket == Append(sockets, [readyState |-> "CONNECTING", subs |-> 0])

InitServer(vs) ==
  /\ variant \in vs
  /\ sockets = Append(<<>>, [readyState |-> "CONNECTING", subs |-> 0])
  /\ timers = <<>>
  /\ nFrames = 0
  /\ inflight = {}
  /\ eventQueue = <<>>
  /\ nextCoinId = 0
  /\ currentBundle = <<>>
  /\ bytesSentThisMinute = 0
  /\ messagesThisMinute = 0
  /\ clients = [c \in ClientIds |-> "NONE"]
  /\ sent = NothingSent
  /\ done = NoDone
  /\ pushed = <<>>
  /\ pushedIds = <<>>
  /\ bundled = <<>>
  /\ handed = <<>>
  /\ learned = [c \in ClientIds |-> {}]

NoObject == [k \in {} |-> Undef]

NothingSeen == [step |-> "none"]

\* The page as loaded: no card yet.
InitPage(cvs, heights) ==
  /\ clientVariant \in cvs
  /\ innerHeight \in heights
  /\ activeCoins = <<>>
  /\ pendingCards = {}
  /\ coinIdToContainer = NoObject
  /\ coinDecisions = NoObject
  /\ nReceived = 0
  /\ goneCards = {}
  /\ fresh = {}
  /\ seen = NothingSeen

InitRenderer(cvs) == InitPage(cvs, {InnerHeight})

NoPage == {"none"}

NoResult == [returned |-> FALSE]

NoCalls == {[fn |-> "none"]}

InitUnit(calls) == call \in calls /\ result = NoResult

Init == InitServer(Variants) /\ InitRenderer(NoPage) /\ InitUnit(NoCalls)

(***************************************************************************)
(* broadcastToClients                                                      *)
(***************************************************************************)
\* Buffer.byteLength(JSON.stringify(m)), counted in tokens: JSON.stringify
\* leaves out the fields whose value is undefined.
ByteLength(m) ==
  IF "decisions" \in DOMAIN m THEN 1 + Cardinality(DOMAIN m.decisions)
  ELSE LET kept == {f \in DOMAIN m : m[f].t # "undefined"}
       IN SumOver(kept, [f \in kept |-> 1 + Len(m[f].s)])

OpenClients == {c \in ClientIds : clients[c] = "OPEN"}

\* A faulty Deliver: every client in wss.clients is sent the message,
\* whatever its readyState.
DeliverToAll(m) == [c \in ClientIds |-> IF clients[c] # "NONE" THEN <<m>> ELSE <<>>]

\* client.send(messageString) for every client whose readyState is OPEN.
Deliver(m) == [c \in ClientIds |-> IF clients[c] = "OPEN" THEN <<m>> ELSE <<>>]

broadcastToClients(m) ==
  /\ sent' = Deliver(m)
  /\ learned' =
       [c \in ClientIds |->
          IF Deliver(m)[c] # <<>> /\ "decisions" \in DOMAIN m
          THEN learned[c] \cup DOMAIN m.decisions ELSE learned[c]]
  /\ IF variant \in Counting
     THEN /\ bytesSentThisMinute' =
               bytesSentThisMinute + ByteLength(m) * Cardinality(OpenClients)
          /\ messagesThisMinute' = messagesThisMinute + Cardinality(OpenClients)
     ELSE UNCHANGED counterVars

\* Nothing is sent to any client.
Silent == sent' = NothingSent /\ UNCHANGED learned

NoBroadcast == Silent /\ UNCHANGED counterVars

(***************************************************************************)
(* enrichTokenData                                                         *)
(***************************************************************************)
\* tokenData.uri.replace("https://ipfs.io/ipfs/", gateway)
adjustedUri(tokenData, k) ==
  Str(ReplaceFirst(tokenData.uri.s, URI_PREFIX, IPFS_GATEWAYS[k]))

\* One loop iteration: the fetch of gateway k is under way.
Attempt(tokenData, k) ==
  [gw |-> k, url |-> adjustedUri(tokenData, k), result |-> "pending"]

\* A faulty EnrichResult: without metadata the description and the image
\* are blanked instead of being left as the raw event has them.
EnrichResultBlank(tokenData, metadata) ==
  IF ~Truthy(metadata)
  THEN [threw |-> FALSE,
        value |-> Spread(tokenData, [description |-> Str(<<>>), image |-> Str(<<>>)])]
  ELSE LET img == processMetadataImage(Get(metadata, "image"))
       IN IF img.threw THEN [threw |-> TRUE, value |-> Undef]
          ELSE [threw |-> FALSE,
                value |->
                  Spread(tokenData,
                    [name |-> Or(Get(metadata, "name"), Get(tokenData, "metadata_name")),
                     symbol |-> Or(Get(metadata, "symbol"), Get(tokenData, "metadata_symbol")),
                     description |-> Or(Get(metadata, "description"), Str(<<>>)),
                     image |-> img.value])]

\* What enrichTokenData returns (or throws) once the loop has ended with
\* `metadata`: lines 195-209.
EnrichResult(tokenData, metadata) ==
  IF ~Truthy(metadata) THEN [threw |-> FALSE, value |-> tokenData]
  ELSE LET img == processMetadataImage(Get(metadata, "image"))
       IN IF img.threw THEN [threw |-> TRUE, value |-> Undef]
          ELSE [threw |-> FALSE,
                value |->
                  Spread(tokenData,
                    [name |-> Or(Get(metadata, "name"), Get(tokenData, "metadata_name")),
                     symbol |-> Or(Get(metadata, "symbol"), Get(tokenData, "metadata_symbol")),
                     description |-> Or(Get(metadata, "description"), Str(<<>>)),
                     image |-> img.value])]

\* The 0.5 s variant also copies twitter and website (server.js 342-353).
EnrichResultFast(tokenData, metadata) ==
  LET r == EnrichResult(tokenData, metadata)
  IN IF r.threw \/ ~Truthy(metadata) THEN r
     ELSE [threw |-> FALSE,
           value |->
             Spread(r.value,
               [twitter |-> Or(Get(metadata, "twitter"), Null),
                website |-> Or(Get(metadata, "website"), Null)])]

Enriched(tokenData, metadata) ==
  IF variant = "fast" THEN EnrichResultFast(tokenData, metadata)
  ELSE EnrichResult(tokenData, metadata)

Completed(tokenData, attempts, metadata, res) ==
  [called |-> TRUE, tokenData |-> tokenData, attempts |-> attempts,
   metadata |-> metadata, threw |-> res.threw, value |-> res.value]

(***************************************************************************)
(* The message handler after `await enrichTokenData(parsed)`               *)
(***************************************************************************)
\* eventQueue.push(e)
\* A faulty Push: the event is put at the front of the queue.
PushFront(e) ==
  /\ eventQueue' = <<e>> \o eventQueue
  /\ pushed' = Append(pushed, Get(e, "mint"))
  /\ pushedIds' = Append(pushedIds, Get(e, "coinId"))

Push(e) ==
  /\ eventQueue' = Append(eventQueue, e)
  /\ pushed' = Append(pushed, Get(e, "mint"))
  /\ pushedIds' = Append(pushedIds, Get(e, "coinId"))

\* catch (err): the error is logged and the event is gone.
Caught == UNCHANGED queueVars /\ NoBroadcast

\* name, symbol, image, description, mint of the refined event.
RefinedFields(enriched, desc) ==
  [name |-> Or(Get(enriched, "name"), Str(<<"Unknown">>)),
   symbol |-> Or(Get(enriched, "symbol"), Str(<<"Unknown">>)),
   image |-> Or(Get(enriched, "image"), Str(<<>>)),
   description |-> Str(finalDesc(desc.s)),
   mint |-> Get(enriched, "mint")]

\* A faulty QueueEnriched: the event is also broadcast at once.
QueueEnrichedSendNow(enriched) ==
  /\ Push(enriched)
  /\ UNCHANGED <<nextCoinId, currentBundle, bundled>>
  /\ broadcastToClients(enriched)

\* fast, logged: eventQueue.push(enriched)
QueueEnriched(enriched) ==
  /\ Push(enriched)
  /\ UNCHANGED <<nextCoinId, currentBundle, bundled>>
  /\ NoBroadcast

\* refine: part_001 291-313
QueueRefined(enriched, desc) ==
  /\ Push(RefinedFields(enriched, desc))
  /\ UNCHANGED <<nextCoinId, currentBundle, bundled>>
  /\ NoBroadcast

\* A faulty QueueBundled: the coinId is the event's position in the queue.
QueueBundledByPosition(enriched, desc) ==
  LET coinId == Len(eventQueue)
      refined ==
        Spread([type |-> Str(<<"newToken">>), coinId |-> Num(coinId)],
               RefinedFields(enriched, desc))
      bundle == Append(currentBundle, coinId)
  IN /\ nextCoinId' = nextCoinId + 1
     /\ IF Len(bundle) = BUNDLE_SIZE
        THEN /\ \E decisions \in [Range(bundle) -> {"yes", "no"}] :
                  broadcastToClients(
                    [type |-> Str(<<"decisionBundle">>), decisions |-> decisions])
             /\ bundled' = Append(bundled, Range(bundle))
             /\ currentBundle' = <<>>
        ELSE /\ NoBroadcast
             /\ currentBundle' = bundle
             /\ UNCHANGED bundled
     /\ Push(refined)

\* A faulty QueueBundled: the full bundle is broadcast and kept.
QueueBundledNoReset(enriched, desc) ==
  LET coinId == nextCoinId
      refined ==
        Spread([type |-> Str(<<"newToken">>), coinId |-> Num(coinId)],
               RefinedFields(enriched, desc))
      bundle == Append(currentBundle, coinId)
  IN /\ nextCoinId' = nextCoinId + 1
     /\ IF Len(bundle) = BUNDLE_SIZE
        THEN /\ \E decisions \in [Range(bundle) -> {"yes", "no"}] :
                  broadcastToClients(
                    [type |-> Str(<<"decisionBundle">>), decisions |-> decisions])
             /\ bundled' = Append(bundled, Range(bundle))
             /\ currentBundle' = Tail(bundle)
        ELSE /\ NoBroadcast
             /\ currentBundle' = bundle
             /\ UNCHANGED bundled
     /\ Push(refined)

\* A faulty QueueBundled: the bundle is closed by the coin after the eighth.
QueueBundledLate(enriched, desc) ==
  LET coinId == nextCoinId
      refined ==
        Spread([type |-> Str(<<"newToken">>), coinId |-> Num(coinId)],
               RefinedFields(enriched, desc))
      bundle == Append(currentBundle, coinId)
  IN /\ nextCoinId' = nextCoinId + 1
     /\ IF Len(bundle) = BUNDLE_SIZE + 1
        THEN /\ \E decisions \in [Range(bundle) -> {"yes", "no"}] :
                  broadcastToClients(
                    [type |-> Str(<<"decisionBundle">>), decisions |-> decisions])
             /\ bundled' = Append(bundled, Range(bundle))
             /\ currentBundle' = <<>>
        ELSE /\ NoBroadcast
             /\ currentBundle' = bundle
             /\ UNCHANGED bundled
     /\ Push(refined)

\* bundle: server.js 116-151
QueueBundled(enriched, desc) ==
  LET coinId == nextCoinId
      refined ==
        Spread([type |-> Str(<<"newToken">>), coinId |-> Num(coinId)],
               RefinedFields(enriched, desc))
      bundle == Append(currentBundle, coinId)
  IN /\ nextCoinId' = nextCoinId + 1
     /\ IF Len(bundle) = BUNDLE_SIZE
        THEN /\ \E decisions \in [Range(bundle) -> {"yes", "no"}] :
                  broadcastToClients(
                    [type |-> Str(<<"decisionBundle">>), decisions |-> decisions])
             /\ bundled' = Append(bundled, Range(bundle))
             /\ currentBundle' = <<>>
        ELSE /\ NoBroadcast
             /\ currentBundle' = bundle
             /\ UNCHANGED bundled
     /\ Push(refined)

\* res is what enrichTokenData returned or threw.
HandlerTail(res) ==
  IF res.threw THEN Caught
  ELSE IF variant \notin Refining THEN QueueEnriched(res.value)
  ELSE LET desc == Or(Get(res.value, "description"), Str(<<>>))
       IN IF ~IsString(desc) THEN Caught   \* desc.replace is not a function
          ELSE IF variant = "refine" THEN QueueRefined(res.value, desc)
          ELSE QueueBundled(res.value, desc)

(***************************************************************************)
(* Upstream listener                                                       *)
(***************************************************************************)
Quiet == Silent /\ done' = NoDone

\* A faulty SocketOpen: the subscription goes to the first socket made.
SocketOpenStale(i) ==
  /\ sockets[i].readyState = "CONNECTING"
  /\ sockets' =
       [[sockets EXCEPT ![i].readyState = "OPEN"] EXCEPT ![1].subs = @ + 1]
  /\ Quiet
  /\ UNCHANGED <<variant, rendererVars, unitVars, timers, nFrames, inflight, queueVars, counterVars,
                 clients, handed>>

\* pumpPortalSocket.on("open"): the subscription goes to pumpPortalSocket.
SocketOpen(i) ==
  /\ sockets[i].readyState = "CONNECTING"
  /\ sockets' =
       [[sockets EXCEPT ![i].readyState = "OPEN"]
          EXCEPT ![pumpPortalSocket].subs = @ + 1]
  /\ Quiet
  /\ UNCHANGED <<variant, rendererVars, unitVars, timers, nFrames, inflight, queueVars, counterVars,
                 clients, handed>>

\* A faulty SocketError: the error handler schedules a reconnect as well.
SocketErrorReconnects(i) ==
  /\ sockets[i].readyState \in {"CONNECTING", "OPEN"}
  /\ sockets' = [sockets EXCEPT ![i].readyState = "CLOSING"]
  /\ timers' = Append(timers, RECONNECT_DELAY_MS)
  /\ Quiet
  /\ UNCHANGED <<variant, rendererVars, unitVars, nFrames, inflight, queueVars, counterVars,
                 clients, handed>>

\* pumpPortalSocket.on("error"): the handler logs and does nothing else.
\* The socket that emits "error" is on its way down (readyState CLOSING):
\* the library emits "close" after it.
SocketError(i) ==
  /\ sockets[i].readyState \in {"CONNECTING", "OPEN"}
  /\ sockets' = [sockets EXCEPT ![i].readyState = "CLOSING"]
  /\ Quiet
  /\ UNCHANGED <<variant, rendererVars, unitVars, timers, nFrames, inflight, queueVars, counterVars,
                 clients, handed>>

\* A faulty SocketClose: the delay doubles with every socket that failed.
SocketCloseBackoff(i) ==
  /\ sockets[i].readyState \in {"CONNECTING", "OPEN", "CLOSING"}
  /\ sockets' = [sockets EXCEPT ![i].readyState = "CLOSED"]
  /\ timers' = Append(timers, RECONNECT_DELAY_MS * Len(sockets))
  /\ Quiet
  /\ UNCHANGED <<variant, rendererVars, unitVars, nFrames, inflight, queueVars, counterVars, clients,
                 handed>>

\* pumpPortalSocket.on("close"): setTimeout(connectWebSocket, 5000)
SocketClose(i) ==
  /\ sockets[i].readyState \in {"CONNECTING", "OPEN", "CLOSING"}
  /\ sockets' = [sockets EXCEPT ![i].readyState = "CLOSED"]
  /\ timers' = Append(timers, RECONNECT_DELAY_MS)
  /\ Quiet
  /\ UNCHANGED <<variant, rendererVars, unitVars, nFrames, inflight, queueVars, counterVars, clients,
                 handed>>

\* A pending reconnect timer fires: connectWebSocket().
ReconnectTimer ==
  /\ timers # <<>>
  /\ Len(sockets) < MaxSockets
  /\ timers' = Tail(timers)
  /\ sockets' = connectWebSocket
  /\ Quiet
  /\ UNCHANGED <<variant, rendererVars, unitVars, nFrames, inflight, queueVars, counterVars, clients,
                 handed>>

\* JSON.parse(message): the value, or a SyntaxError.
JsonParse(raw) ==
  IF raw.json THEN [threw |-> FALSE, value |-> raw.value]
  ELSE [threw |-> TRUE, value |-> Undef]

\* parsed.txType: reading a property of null is a TypeError, a primitive
\* has no such property.
TxType(parsed) ==
  IF parsed = Null THEN [threw |-> TRUE, value |-> Undef]
  ELSE [threw |-> FALSE, value |-> Get(parsed, "txType")]

\* The frame reaches the branch of `parsed.txType === "create"`.
IsCreate(raw) ==
  /\ ~JsonParse(raw).threw
  /\ ~TxType(JsonParse(raw).value).threw
  /\ TxType(JsonParse(raw).value).value = Str(<<"create">>)

\* A faulty FrameIgnored: the coinId is taken before txType is looked at.
FrameIgnoredCounted(i, frames) ==
  /\ sockets[i].readyState = "OPEN"
  /\ \E raw \in frames :
       /\ ~IsCreate(raw)
       /\ done' = [called |-> FALSE, frame |-> raw]
  /\ Silent
  /\ nextCoinId' = nextCoinId + 1
  /\ UNCHANGED <<variant, rendererVars, unitVars, upstreamVars, nFrames, inflight, eventQueue,
                 currentBundle, pushed, pushedIds, bundled, counterVars, clients,
                 handed>>

\* A frame that is no JSON, or is the JSON null (both end in the catch, which
\* logs), or whose txType is not "create" (the else branch, which logs).
FrameIgnored(i, frames) ==
  /\ sockets[i].readyState = "OPEN"
  /\ \E raw \in frames :
       /\ ~IsCreate(raw)
       /\ done' = [called |-> FALSE, frame |-> raw]
  /\ Silent
  /\ UNCHANGED <<variant, rendererVars, unitVars, upstreamVars, nFrames, inflight, queueVars,
                 counterVars, clients, handed>>

\* A faulty NoUri: only a null uri counts as absent.
NoUriNullOnly(tokenData) == Get(tokenData, "uri") = Null

\* if (!tokenData.uri)
NoUri(tokenData) == ~Truthy(Get(tokenData, "uri"))

\* A create frame: enrichTokenData runs to its first await.  Without a uri
\* it returns at once and the handler goes on in the same turn of the
\* event loop (a resolved await resumes before any timer or I/O callback).
FrameCreate(i, raws, limit) ==
  /\ sockets[i].readyState = "OPEN"
  /\ nFrames < limit
  /\ nFrames' = nFrames + 1
  /\ \E parsed \in raws[nFrames + 1] :
       LET uri == Get(parsed, "uri")
       IN /\ IsCreate(WireJson(parsed))
          /\ IF NoUri(parsed)
             THEN LET res == [threw |-> FALSE, value |-> parsed]
                  IN /\ done' = Completed(parsed, <<>>, NoDoc, res)
                     /\ HandlerTail(res)
                     /\ UNCHANGED inflight
             ELSE IF ~IsString(uri)   \* uri.replace is not a function
             THEN LET res == [threw |-> TRUE, value |-> Undef]
                  IN /\ done' = Completed(parsed, <<>>, NoDoc, res)
                     /\ HandlerTail(res)
                     /\ UNCHANGED inflight
             ELSE /\ inflight' =
                       inflight \cup
                         {[tokenData |-> parsed, attempts |-> <<Attempt(parsed, 1)>>]}
                  /\ done' = NoDone
                  /\ Silent
                  /\ UNCHANGED <<queueVars, counterVars>>
  /\ UNCHANGED <<variant, rendererVars, unitVars, upstreamVars, clients, handed>>

\* attempts with the fetch under way marked r.
Settle(attempts, r) == [attempts EXCEPT ![Len(attempts)].result = r]

\* A faulty FetchFail: the first failure ends the loop.
FetchFailAbort(p) ==
  /\ p \in inflight
  /\ LET failed == Settle(p.attempts, "failed")
         res == Enriched(p.tokenData, NoDoc)
     IN /\ inflight' = inflight \ {p}
        /\ done' = Completed(p.tokenData, failed, NoDoc, res)
        /\ HandlerTail(res)
  /\ UNCHANGED <<variant, rendererVars, unitVars, upstreamVars, nFrames, clients, handed>>

\* axios.get rejects: the warning is logged and the loop goes on with the
\* next gateway; after the last one metadata is still undefined.
FetchFail(p) ==
  /\ p \in inflight
  /\ LET k == Len(p.attempts)
         failed == Settle(p.attempts, "failed")
     IN IF k < Len(IPFS_GATEWAYS)
        THEN /\ inflight' =
                  (inflight \ {p}) \cup
                    {[p EXCEPT !.attempts = Append(failed, Attempt(p.tokenData, k + 1))]}
             /\ done' = NoDone
             /\ Silent
             /\ UNCHANGED <<queueVars, counterVars>>
        ELSE LET res == Enriched(p.tokenData, NoDoc)
             IN /\ inflight' = inflight \ {p}
                /\ done' = Completed(p.tokenData, failed, NoDoc, res)
                /\ HandlerTail(res)
  /\ UNCHANGED <<variant, rendererVars, unitVars, upstreamVars, nFrames, clients, handed>>

\* axios.get resolves: metadata = response.data; break.
FetchOk(p, docs) ==
  /\ p \in inflight
  /\ \E data \in docs :
       LET res == Enriched(p.tokenData, data)
       IN /\ inflight' = inflight \ {p}
          /\ done' = Completed(p.tokenData, Settle(p.attempts, "ok"), data, res)
          /\ HandlerTail(res)
  /\ UNCHANGED <<variant, rendererVars, unitVars, upstreamVars, nFrames, clients, handed>>

(***************************************************************************)
(* Timers and client connections                                           *)
(***************************************************************************)
\* A faulty Shift: pop() takes the last element.
ShiftLast(q) == [event |-> q[Len(q)], rest |-> SubSeq(q, 1, Len(q) - 1)]

\* A faulty Shift: splice(0, 2) removes two elements and hands on the first.
ShiftTwo(q) == [event |-> Head(q), rest |-> SubSeq(q, 3, Len(q))]

\* eventQueue.shift(): the first element, and what stays in the array.
Shift(q) == [event |-> Head(q), rest |-> Tail(q)]

\* A faulty PacerTick: the pacer hands events on only while an upstream
\* socket is OPEN.
PacerTickWhenUp ==
  /\ IF Len(eventQueue) > 0 /\ \E i \in 1..Len(sockets) : sockets[i].readyState = "OPEN"
     THEN LET nextEvent == Shift(eventQueue).event
          IN /\ eventQueue' = Shift(eventQueue).rest
             /\ broadcastToClients(nextEvent)
             /\ handed' = Append(handed, Get(nextEvent, "mint"))
     ELSE /\ NoBroadcast
          /\ UNCHANGED <<eventQueue, handed>>
  /\ done' = NoDone
  /\ UNCHANGED <<variant, rendererVars, unitVars, upstreamVars, nFrames, inflight, nextCoinId,
                 currentBundle, clients, pushed, pushedIds, bundled>>

\* A faulty PacerTick: the head waits until some client is OPEN.
PacerTickWhenWatched ==
  /\ IF Len(eventQueue) > 0 /\ OpenClients # {}
     THEN LET nextEvent == Shift(eventQueue).event
          IN /\ eventQueue' = Shift(eventQueue).rest
             /\ broadcastToClients(nextEvent)
             /\ handed' = Append(handed, Get(nextEvent, "mint"))
     ELSE /\ NoBroadcast
          /\ UNCHANGED <<eventQueue, handed>>
  /\ done' = NoDone
  /\ UNCHANGED <<variant, rendererVars, unitVars, upstreamVars, nFrames, inflight, nextCoinId,
                 currentBundle, clients, pushed, pushedIds, bundled>>

\* setInterval(..., BROADCAST_INTERVAL_MS)
PacerTick ==
  /\ IF Len(eventQueue) > 0
     THEN LET nextEvent == Shift(eventQueue).event
          IN /\ eventQueue' = Shift(eventQueue).rest
             /\ broadcastToClients(nextEvent)
             /\ handed' = Append(handed, Get(nextEvent, "mint"))
     ELSE /\ NoBroadcast
          /\ UNCHANGED <<eventQueue, handed>>
  /\ done' = NoDone
  /\ UNCHANGED <<variant, rendererVars, unitVars, upstreamVars, nFrames, inflight, nextCoinId,
                 currentBundle, clients, pushed, pushedIds, bundled>>

\* setInterval(..., 60_000): the counters are logged and reset.
BandwidthTick ==
  /\ variant \in Counting
  /\ bytesSentThisMinute' = 0
  /\ messagesThisMinute' = 0
  /\ Quiet
  /\ UNCHANGED <<variant, rendererVars, unitVars, upstreamVars, nFrames, inflight, queueVars, clients,
                 handed>>

\* wss.on("connection"): the socket joins wss.clients, OPEN.
ClientConnect(c) ==
  /\ clients[c] = "NONE"
  /\ clients' = [clients EXCEPT ![c] = "OPEN"]
  /\ sent' = NothingSent
  /\ done' = NoDone
  /\ learned' = [learned EXCEPT ![c] = {}]
  /\ UNCHANGED <<variant, rendererVars, unitVars, upstreamVars, nFrames, inflight, queueVars,
                 counterVars, handed>>

\* The closing handshake has started: still in wss.clients, no longer OPEN.
ClientClosing(c) ==
  /\ clients[c] = "OPEN"
  /\ clients' = [clients EXCEPT ![c] = "CLOSING"]
  /\ Quiet
  /\ UNCHANGED <<variant, rendererVars, unitVars, upstreamVars, nFrames, inflight, queueVars,
                 counterVars, handed>>

\* socket.on("close"): the socket has left wss.clients.
ClientClose(c) ==
  /\ clients[c] \in {"OPEN", "CLOSING"}
  /\ clients' = [clients EXCEPT ![c] = "NONE"]
  /\ Quiet
  /\ UNCHANGED <<variant, rendererVars, unitVars, upstreamVars, nFrames, inflight, queueVars,
                 counterVars, handed>>

(***************************************************************************)
(* The browser page: the card list                                         *)
(*   "pixi"    src/frontend/pixi-script.js        tagged frames, strobe    *)
(*   "canvas"  src/unnamed/part_000               cards built with await   *)
(*   "dom"     src/frontend/script.js     1-118   DOM cards, 120 px/s      *)
(*   "domTop"  src/frontend/script.js   120-268   DOM cards, 70 px/s       *)
(***************************************************************************)
ClientVariants == {"pixi", "canvas", "dom", "domTop"}

COIN_SPACING == 10

CARD_HEIGHT == 100

CANVAS_HEIGHT == 900

STROBE_LINE == 700

STROBE_DURATION == 800

STROBE_FREQUENCY == 15

\* overlay.alpha: 0 at first, STROBE_OPACITY while flickering, FINAL_OPACITY after.
NO_OPACITY == "0"

STROBE_OPACITY == "0.6"

FINAL_OPACITY == "0.8"

WHITE == "0xffffff"

GREEN == "0x00ff00"

RED == "0xff0000"

FLOW_SPEED == [pixi |-> 120, canvas |-> 120, dom |-> 120, domTop |-> 70]

\* app.renderer.height, feedContainer.offsetHeight
ViewHeight == IF clientVariant = "canvas" THEN CANVAS_HEIGHT ELSE innerHeight

\* tokenCard.offsetHeight: what the layout gives a DOM card.
OffsetHeights == {60, CARD_HEIGHT}

\* The time between two animation frames, in ms.
Deltas == {0, 1000}

\* The frames a server can push for its i-th event: the bundling server's
\* tagged event, the same fields untagged, the refining server's event, the
\* enriched upstream event of the two other servers, and a decisionBundle.
FrameFields(i) == RefinedFields(RawFrameNoUri(i), Str(<<>>))

TaggedFrame(i) ==
  Spread([type |-> Str(<<"newToken">>), coinId |-> Num(i)], FrameFields(i))

UntaggedFrame(i) == Spread([coinId |-> Num(i)], FrameFields(i))

RefinedFrame(i) == FrameFields(i)

EnrichedFrame(i) == RawFrameNoUri(i)

BundleFrame(i) ==
  [type |-> Str(<<"decisionBundle">>),
   decisions |-> [k \in {Num(i - 1)} |-> "yes"]]

TokenFrames(i) == {TaggedFrame(i), UntaggedFrame(i), RefinedFrame(i), EnrichedFrame(i)}

ClientFrames(i) == TokenFrames(i) \cup {BundleFrame(i)}

\* obj[k] = v; Object.assign(obj, src)
Assign(obj, k, v) == [x \in DOMAIN obj \cup {k} |-> IF x = k THEN v ELSE obj[x]]

ObjectAssign(obj, src) ==
  [x \in DOMAIN obj \cup DOMAIN src |-> IF x \in DOMAIN src THEN src[x] ELSE obj[x]]

\* A faulty Splice: the card at the front of the list is removed.
SpliceFirst(q, i) == Tail(q)

\* array.splice(i, 1)
Splice(q, i) == SubSeq(q, 1, i - 1) \o SubSeq(q, i + 1, Len(q))

\* The card of the message received as number id: container.y = -height.
NewCard(id, data, height) ==
  [id |-> id, coinId |-> Get(data, "coinId"), y |-> 0 - height, height |-> height]

\* A faulty Unshift: the card is pushed at the end of the list.
UnshiftAtEnd(q, card) == Append(q, card)

\* The strobe fields of a pixi card as createCoinContainer leaves them.  The
\* page only ever subtracts one clock reading from another, so the readings
\* are kept relative to lastTime, the reading of the latest frame:
\* strobeStartTime is _strobeStartTime - lastTime once the strobe is active.
NoStrobe ==
  [strobeActive |-> FALSE, strobeStartTime |-> 0, finalColor |-> WHITE,
   overlay |-> [tint |-> WHITE, alpha |-> NO_OPACITY]]

NewCoin(id, data) == Spread(NewCard(id, data, CARD_HEIGHT), NoStrobe)

\* coinDecisions[cId] is truthy.
DecisionKnown(cId) == cId \in DOMAIN coinDecisions /\ coinDecisions[cId] # ""

\* A faulty maybeTriggerStrobe: the strobe starts anew in every frame in
\* which the card is below the line and its decision is known.
maybeTriggerStrobeAnew(coin, currentTime) ==
  IF DecisionKnown(coin.coinId) /\ coin.y > STROBE_LINE
  THEN [coin EXCEPT
          !.finalColor = IF coinDecisions[coin.coinId] = "yes" THEN GREEN ELSE RED,
          !.strobeActive = TRUE,
          !.strobeStartTime = currentTime]
  ELSE coin

\* maybeTriggerStrobe(coin, now), with now relative to lastTime.
maybeTriggerStrobe(coin, currentTime) ==
  IF coin.strobeActive
  THEN LET elapsed == currentTime - coin.strobeStartTime
           phase == ((elapsed * STROBE_FREQUENCY) \div 1000) % 2
       IN IF elapsed < STROBE_DURATION
          THEN [coin EXCEPT
                  !.overlay = [tint |-> IF phase = 0 THEN RED ELSE GREEN,
                               alpha |-> STROBE_OPACITY]]
          ELSE [coin EXCEPT
                  !.overlay = [tint |-> coin.finalColor, alpha |-> FINAL_OPACITY]]
  ELSE IF DecisionKnown(coin.coinId) /\ coin.y > STROBE_LINE
       THEN [coin EXCEPT
               !.finalColor = IF coinDecisions[coin.coinId] = "yes" THEN GREEN ELSE RED,
               !.strobeActive = TRUE,
               !.strobeStartTime = currentTime]
       ELSE coin

\* lastTime = now: the readings kept are now relative to the new lastTime.
Rebased(coins, deltaMs) ==
  [i \in 1..Len(coins) |->
     IF coins[i].strobeActive
     THEN [coins[i] EXCEPT !.strobeStartTime = @ - deltaMs]
     ELSE coins[i]]

\* activeCoins.unshift(card)
Unshift(q, card) == <<card>> \o q

\* The test the page makes before it builds a card.
Accepts(data) ==
  CASE clientVariant = "pixi" -> Get(data, "type") = Str(<<"newToken">>)
    [] clientVariant = "canvas" -> TRUE
    [] OTHER ->
         \/ Get(data, "txType") = Str(<<"create">>)
         \/ Get(data, "method") = Str(<<"subscribeNewToken">>)

\* socket.onmessage
Receive(frames) ==
  /\ clientVariant \in ClientVariants
  /\ nReceived < MaxMessages
  /\ nReceived' = nReceived + 1
  /\ \E data \in frames[nReceived + 1] :
       LET id == nReceived + 1
       IN /\ seen' = [step |-> "message", id |-> id, data |-> data]
          /\ CASE clientVariant = "pixi" ->
                    IF Accepts(data)
                    THEN LET card == NewCoin(id, data)
                         IN /\ activeCoins' = Unshift(activeCoins, card)
                            /\ coinIdToContainer' =
                                 Assign(coinIdToContainer, card.coinId, id)
                            /\ UNCHANGED <<pendingCards, coinDecisions>>
                    ELSE IF Get(data, "type") = Str(<<"decisionBundle">>)
                    THEN /\ coinDecisions' = ObjectAssign(coinDecisions, data.decisions)
                         /\ UNCHANGED <<activeCoins, pendingCards, coinIdToContainer>>
                    ELSE UNCHANGED <<activeCoins, pendingCards, coinIdToContainer,
                                     coinDecisions>>
               [] clientVariant = "canvas" ->
                    /\ pendingCards' = pendingCards \cup {NewCard(id, data, CARD_HEIGHT)}
                    /\ UNCHANGED <<activeCoins, coinIdToContainer, coinDecisions>>
               [] OTHER ->
                    IF Accepts(data)
                    THEN /\ \E h \in OffsetHeights :
                              activeCoins' = Unshift(activeCoins, NewCard(id, data, h))
                         /\ UNCHANGED <<pendingCards, coinIdToContainer, coinDecisions>>
                    ELSE UNCHANGED <<activeCoins, pendingCards, coinIdToContainer,
                                     coinDecisions>>
  /\ fresh' = IF Len(activeCoins') > Len(activeCoins)
              THEN fresh \cup {nReceived + 1} ELSE fresh
  /\ UNCHANGED <<serverVars, unitVars, clientVariant, innerHeight, goneCards>>

\* `await createCoinContainer(data)` resumes: the texture has loaded, or
\* has failed and the placeholder is used.
CardBuilt(card) ==
  /\ card \in pendingCards
  /\ pendingCards' = pendingCards \ {card}
  /\ activeCoins' = Unshift(activeCoins, card)
  /\ seen' = [step |-> "built", id |-> card.id]
  /\ fresh' = fresh \cup {card.id}
  /\ UNCHANGED <<serverVars, unitVars, clientVariant, innerHeight, coinIdToContainer, coinDecisions,
                 nReceived, goneCards>>

\* A faulty Advanced: no collision test.
AdvancedFreely(coins, i, distance) == coins[i].y + distance

\* coin.y += distance, then the collision test against the card below.
Advanced(coins, i, distance) ==
  LET moved == coins[i].y + distance
  IN IF i < Len(coins)
     THEN LET requiredY == coins[i + 1].y - coins[i].height - COIN_SPACING
          IN IF moved > requiredY THEN requiredY ELSE moved
     ELSE moved

\* A faulty OffScreen: only a card that is a whole card below the view.
OffScreenLate(coin) == coin.y > ViewHeight + CARD_HEIGHT

\* if (coin.y > containerHeight)
OffScreen(coin) == coin.y > ViewHeight

\* The loop `for (i = length - 1; i >= 0; i--)` from index i down; pixi
\* removes a card that has left the view inside this loop.
RECURSIVE MoveFrom(_, _, _, _, _)
MoveFrom(st, i, distance, now, removeNow) ==
  IF i = 0 THEN st
  ELSE LET moved == [st.coins[i] EXCEPT !.y = Advanced(st.coins, i, distance)]
           coin == IF clientVariant = "pixi" THEN maybeTriggerStrobe(moved, now)
                   ELSE moved
           placed == [st.coins EXCEPT ![i] = coin]
       IN IF removeNow /\ OffScreen(coin)
          THEN MoveFrom([coins |-> Splice(placed, i), evicted |-> st.evicted \cup {coin}],
                        i - 1, distance, now, removeNow)
          ELSE MoveFrom([coins |-> placed, evicted |-> st.evicted],
                        i - 1, distance, now, removeNow)

\* The second loop of the canvas and DOM pages: remove the cards below the
\* view.
RECURSIVE RemoveFrom(_, _)
RemoveFrom(st, i) ==
  IF i = 0 THEN st
  ELSE IF OffScreen(st.coins[i])
       THEN RemoveFrom([coins |-> Splice(st.coins, i),
                        evicted |-> st.evicted \cup {st.coins[i]}], i - 1)
       ELSE RemoveFrom(st, i - 1)

\* One animation frame, deltaMs after the previous one.
Tick(deltaMs) ==
  /\ clientVariant \in ClientVariants
  /\ LET distance == (FLOW_SPEED[clientVariant] * deltaMs) \div 1000
         start == [coins |-> activeCoins, evicted |-> {}]
         n == Len(activeCoins)
         end == IF clientVariant = "pixi"
                THEN MoveFrom(start, n, distance, deltaMs, TRUE)
                ELSE LET moved == MoveFrom(start, n, distance, deltaMs, FALSE)
                     IN RemoveFrom(moved, Len(moved.coins))
     IN /\ activeCoins' = IF clientVariant = "pixi" THEN Rebased(end.coins, deltaMs)
                          ELSE end.coins
        /\ goneCards' = goneCards \cup {c.id : c \in end.evicted}
        /\ coinIdToContainer' =
             IF clientVariant = "pixi"
             THEN [k \in DOMAIN coinIdToContainer \ {c.coinId : c \in end.evicted}
                     |-> coinIdToContainer[k]]
             ELSE coinIdToContainer
        /\ seen' = [step |-> "frame", deltaMs |-> deltaMs, evicted |-> end.evicted]
  /\ fresh' = {}
  /\ UNCHANGED <<serverVars, unitVars, clientVariant, innerHeight, pendingCards, coinDecisions, nReceived>>

(***************************************************************************)
(* One metadata document on its own: its description through the handler's *)
(* tail, its image through processMetadataImage                            *)
(***************************************************************************)
\* What separates the two runs of letters of a drawn description.
Gaps == {<<>>, <<" ">>, <<"\r", "\n">>, <<"\n", "\t", " ">>, Rep(" ", 16)}

Edges == {<<>>, <<"\n">>}

Descriptions ==
  {Undef} \cup
  {Str(l \o Rep("a", n) \o g \o Rep("b", m) \o t) :
     l \in Edges, n \in 0..MaxRun, g \in Gaps, m \in 0..MaxRun, t \in Edges}

Hosts == {"https://ipfs.io", "https://example.com"}

Hashes == {"QmImg", "QmOther"}

ImageUrls ==
  {Undef, Null, Str(<<>>)} \cup
  {Str(u) : u \in
     UNION {{<<g, "/logo.png">>,
             <<g, IPFS_SEP>>,
             <<g, IPFS_SEP, h>>,
             <<g, IPFS_SEP, h, "/logo.png">>,
             <<g, IPFS_SEP, h, IPFS_SEP, k>>} :
            g \in Hosts, h \in Hashes, k \in Hashes}}

UnitCalls ==
  {[fn |-> "description", arg |-> d] : d \in Descriptions} \cup
  {[fn |-> "image", arg |-> u] : u \in ImageUrls}

\* The handler's tail on the event enriched from a document that carries the
\* drawn description (server.js 104-151, part_001 289-313).
DescribeAndQueue ==
  /\ call.fn = "description"
  /\ ~result.returned
  /\ LET metadata == [DocFull EXCEPT !.description = call.arg]
     IN HandlerTail(Enriched(RawFrame(1, IpfsIoUri), metadata))
  /\ result' = [returned |-> TRUE]
  /\ done' = NoDone
  /\ UNCHANGED <<variant, rendererVars, call, upstreamVars, nFrames, inflight,
                 clients, handed>>

\* processMetadataImage(imageUrl) called on the drawn image URL.
ConvertImage ==
  /\ call.fn = "image"
  /\ ~result.returned
  /\ LET r == processMetadataImage(call.arg)
     IN result' = [returned |-> TRUE, threw |-> r.threw, value |-> r.value]
  /\ UNCHANGED <<serverVars, rendererVars, call>>

(***************************************************************************)
(* Specifications                                                          *)
(***************************************************************************)
\* The feeds the upstream can send: the i-th create frame is one of feed[i].
RawFeed == [i \in 1..(MaxEvents + 1) |-> RawEvents(i)]

BurstFeed == [i \in 1..(MaxBurst + 1) |-> BurstEvents(i)]

CoinFeed == [i \in 1..(MaxCoins + 1) |-> BurstEvents(i)]

\* Pacing and broadcast: a burst of create frames, the pacer, the clients.
Next ==
  \/ \E i \in 1..Len(sockets) : SocketOpen(i)
  \/ \E i \in 1..Len(sockets) : FrameCreate(i, BurstFeed, MaxBurst)
  \/ PacerTick
  \/ BandwidthTick
  \/ \E c \in Viewer : ClientConnect(c)
  \/ \E c \in Viewer : ClientClosing(c)
  \/ \E c \in Viewer : ClientClose(c)

Spec == Init /\ [][Next]_vars

\* Broadcast: several browsers that connect, start closing and leave while
\* the pacer hands events on.
NextBroadcast ==
  \/ \E i \in 1..Len(sockets) : SocketOpen(i)
  \/ \E i \in 1..Len(sockets) : FrameCreate(i, BurstFeed, MaxEvents)
  \/ PacerTick
  \/ \E c \in ClientIds : ClientConnect(c)
  \/ \E c \in ClientIds : ClientClosing(c)
  \/ \E c \in ClientIds : ClientClose(c)

SpecBroadcast ==
  InitServer({"bundle", "fast"}) /\ InitRenderer(NoPage) /\ InitUnit(NoCalls) /\ [][NextBroadcast]_vars

\* Enrichment: create frames of every kind, their metadata fetches in any
\* interleaving, the pacer.
NextEnrich ==
  \/ \E i \in 1..Len(sockets) : SocketOpen(i)
  \/ \E i \in 1..Len(sockets) : FrameCreate(i, RawFeed, MaxEvents)
  \/ \E p \in inflight : FetchFail(p)
  \/ \E p \in inflight : FetchOk(p, Docs)
  \/ PacerTick
  \/ BandwidthTick

SpecEnrich == Init /\ [][NextEnrich]_vars

\* Bundling: enough create frames for more than two bundles, the pacer, one
\* browser.
NextBundle ==
  \/ \E i \in 1..Len(sockets) : SocketOpen(i)
  \/ \E i \in 1..Len(sockets) : FrameCreate(i, CoinFeed, MaxCoins)
  \/ PacerTick
  \/ \E c \in Viewer : ClientConnect(c)
  \/ \E c \in Viewer : ClientClose(c)

SpecBundle == InitServer({"bundle"}) /\ InitRenderer(NoPage) /\ InitUnit(NoCalls) /\ [][NextBundle]_vars

\* The message handler: frames of every kind while earlier create frames
\* are being enriched, in the variant that assigns coinIds and bundles.
NextFrames ==
  \/ \E i \in 1..Len(sockets) : SocketOpen(i)
  \/ \E i \in 1..Len(sockets) : FrameIgnored(i, OtherFrames)
  \/ \E i \in 1..Len(sockets) : FrameCreate(i, RawFeed, MaxEvents)
  \/ \E p \in inflight : FetchFail(p)
  \/ \E p \in inflight : FetchOk(p, {DocFull})
  \/ PacerTick

SpecFrames == InitServer({"bundle"}) /\ InitRenderer(NoPage) /\ InitUnit(NoCalls) /\ [][NextFrames]_vars

\* The upstream connection: open, error, close, reconnect.
NextUpstream ==
  \/ \E i \in 1..Len(sockets) : SocketOpen(i)
  \/ \E i \in 1..Len(sockets) : SocketError(i)
  \/ \E i \in 1..Len(sockets) : SocketClose(i)
  \/ ReconnectTimer
  \/ \E i \in 1..Len(sockets) : FrameIgnored(i, OtherFrames)
  \/ \E i \in 1..Len(sockets) : FrameCreate(i, BurstFeed, MaxEvents)
  \/ PacerTick

\* The page: messages of every shape, cards being built, animation frames.
MessageFeed == [i \in 1..(MaxMessages + 1) |-> ClientFrames(i)]

NextRenderer ==
  \/ Receive(MessageFeed)
  \/ \E card \in pendingCards : CardBuilt(card)
  \/ \E deltaMs \in Deltas : Tick(deltaMs)

SpecRenderer ==
  /\ InitServer({"bundle"}) /\ InitRenderer(ClientVariants) /\ InitUnit(NoCalls)
  /\ [][NextRenderer]_vars

SpecUpstream == Init /\ [][NextUpstream]_vars

\* Draining: create frames, the pacer, and an upstream that goes down and
\* comes back.
NextDrain ==
  \/ \E i \in 1..Len(sockets) : SocketOpen(i)
  \/ \E i \in 1..Len(sockets) : SocketClose(i)
  \/ ReconnectTimer
  \/ \E i \in 1..Len(sockets) : FrameCreate(i, BurstFeed, MaxEvents)
  \/ PacerTick

\* The pacer's interval timer keeps firing.
SpecDrainFair == Init /\ [][NextDrain]_vars /\ WF_vars(PacerTick)

\* "close" follows "error".
\* The bundling server with metadata fetches in flight and a browser that
\* comes and goes: enrichments complete in any order.
NextOrder ==
  \/ \E i \in 1..Len(sockets) : SocketOpen(i)
  \/ \E i \in 1..Len(sockets) : FrameCreate(i, RawFeed, MaxEvents)
  \/ \E p \in inflight : FetchFail(p)
  \/ \E p \in inflight : FetchOk(p, {DocFull})
  \/ PacerTick
  \/ \E c \in Viewer : ClientConnect(c)
  \/ \E c \in Viewer : ClientClose(c)

SpecOrder ==
  /\ InitServer({"bundle"}) /\ InitRenderer(NoPage) /\ InitUnit(NoCalls)
  /\ [][NextOrder]_vars

\* The pixi page in a window tall enough to show the strobe line: the server
\* sends, as its i-th message, the coin i or a decisionBundle for the coins
\* 1..i, with either decision.
TallHeight == 1000

Decisions == {"yes", "no"}

DecisionFrame(i, d) ==
  [type |-> Str(<<"decisionBundle">>), decisions |-> [k \in {Num(j) : j \in 1..i} |-> d]]

StrobeFeed ==
  [i \in 1..(MaxMessages + 1) |->
     {TaggedFrame(i)} \cup {DecisionFrame(i, d) : d \in Decisions}]

StrobeDeltas == {0, 500, 7000}

NextStrobe ==
  \/ Receive(StrobeFeed)
  \/ \E deltaMs \in StrobeDeltas : Tick(deltaMs)

SpecStrobe ==
  /\ InitServer({"bundle"}) /\ InitPage({"pixi"}, {TallHeight}) /\ InitUnit(NoCalls)
  /\ [][NextStrobe]_vars

\* One document: the refining variants queue its description, and its image
\* URL is converted.
NextUnit == DescribeAndQueue \/ ConvertImage

SpecUnit ==
  /\ InitServer(Refining) /\ InitRenderer(NoPage) /\ InitUnit(UnitCalls)
  /\ [][NextUnit]_vars

CloseAfterError ==
  \E i \in 1..Len(sockets) : sockets[i].readyState = "CLOSING" /\ SocketClose(i)

\* Timers fire, and a socket that reported an error goes on to close.
SpecUpstreamFair ==
  SpecUpstream /\ WF_vars(ReconnectTimer) /\ WF_vars(CloseAfterError)

(***************************************************************************)
(* Properties                                                              *)
(***************************************************************************)
MintsOf(q) == [i \in 1..Len(q) |-> Get(q[i], "mint")]

\* The position of the create frame with mint m in the upstream feed.
ArrivalOf(m) == CHOOSE i \in 1..nFrames : Mint(i) = m

Times(q, x) == Cardinality({i \in 1..Len(q) : q[i] = x})

\* What a step leaves alone when it changes nothing of the server's state.
serverState ==
  <<variant, sockets, timers, nFrames, inflight, eventQueue, nextCoinId,
    currentBundle, bytesSentThisMinute, messagesThisMinute, clients, pushed,
    pushedIds, bundled, handed>>

IsDecisionBundle(m) == "decisions" \in DOMAIN m

\* C1: the events the pacer hands to broadcastToClients are, in order, the
\* events pushed onto eventQueue: what was pushed is what was handed on
\* followed by what still waits, nothing skipped, repeated or overtaken.
C1_FifoOrder == pushed = handed \o MintsOf(eventQueue)

C1_Witness == Len(handed) >= 3 /\ Len(eventQueue) >= 2

\* C2: create frames are pushed onto eventQueue in the order in which they
\* were received from the upstream socket (and so are broadcast in it).
C2_ArrivalOrder ==
  \A i, j \in 1..Len(pushed) :
    i < j => ArrivalOf(pushed[i]) < ArrivalOf(pushed[j])

\* C3: a pacer tick with a non-empty queue removes exactly the head, which is
\* the one event handed to the broadcaster, and the queue is one shorter; a
\* tick with an empty queue changes nothing and sends nothing.
C3_OnePerTick ==
  [][PacerTick =>
       IF Len(eventQueue) = 0
       THEN UNCHANGED serverState /\ sent' = NothingSent
       ELSE /\ eventQueue' = Tail(eventQueue)
            /\ Len(eventQueue') = Len(eventQueue) - 1
            /\ handed' = Append(handed, Get(Head(eventQueue), "mint"))
            /\ \A c \in ClientIds : sent'[c] \in {<<>>, <<Head(eventQueue)>>}]_vars

C3_Witness ==
  /\ Len(eventQueue) >= 3
  /\ Len(handed) >= 2
  /\ \E c \in ClientIds :
       sent[c] # <<>> /\ Get(sent[c][1], "mint") = handed[Len(handed)]

\* C4 as claimed: a message reaches a client only in a pacer tick, and no
\* step sends a client more than one message.
C4_OnlyTicksSend ==
  [][/\ \A c \in ClientIds : Len(sent'[c]) <= 1
     /\ (\E c \in ClientIds : sent'[c] # <<>>) => PacerTick]_vars

\* C4 amended: no step sends a client more than one message; an event
\* message is sent only in a pacer tick; the only message sent outside a tick
\* is the decisionBundle the bundling variant broadcasts from the message
\* handler when the 8th coinId of a bundle is assigned.
C4_EventsOnlyAtTicks ==
  [][/\ \A c \in ClientIds : Len(sent'[c]) <= 1
     /\ \A c \in ClientIds :
          sent'[c] # <<>> =>
            \/ PacerTick /\ ~IsDecisionBundle(sent'[c][1])
            \/ /\ variant = "bundle"
               /\ IsDecisionBundle(sent'[c][1])
               /\ Len(currentBundle) = BUNDLE_SIZE - 1
               /\ currentBundle' = <<>>
               /\ nextCoinId' = nextCoinId + 1]_vars

C4_Witness ==
  /\ \E c \in ClientIds : sent[c] # <<>> /\ IsDecisionBundle(sent[c][1])
  /\ Len(handed) >= 1

\* C5: every create frame received is either still being enriched or has
\* been pushed onto eventQueue exactly once.
C5_NoCreateDropped ==
  \A a \in 1..nFrames :
    IF \E p \in inflight : Get(p.tokenData, "mint") = Mint(a)
    THEN Times(pushed, Mint(a)) = 0
    ELSE Times(pushed, Mint(a)) = 1

\* C6: every enrichTokenData call that completes returns an event; none
\* throws.
C6_EnrichNeverThrows == done.called => ~done.threw

AllFailed(attempts) ==
  /\ Len(attempts) = Len(IPFS_GATEWAYS)
  /\ \A j \in 1..Len(attempts) : attempts[j].result = "failed"

Empty(v) == ~Truthy(v)

\* C7 as claimed: with a uri and every gateway failing, the result keeps the
\* raw event's mint and has an empty description and an empty image.
C7_AllFailEmpty ==
  (done.called /\ AllFailed(done.attempts)) =>
    /\ ~done.threw
    /\ Get(done.value, "mint") = Get(done.tokenData, "mint")
    /\ Empty(Get(done.value, "description"))
    /\ Empty(Get(done.value, "image"))

\* C7 amended: with a uri and every gateway failing, the result is the raw
\* event itself, every field as received: the mint is kept, and the
\* description and the image are the raw event's own, so they are empty
\* exactly when the upstream frame carries none.
C7_AllFailReturnsRaw ==
  (done.called /\ AllFailed(done.attempts)) =>
    /\ ~done.threw
    /\ done.value = done.tokenData
    /\ Get(done.value, "mint") = Get(done.tokenData, "mint")
    /\ Empty(Get(done.value, "description")) =
         Empty(Get(done.tokenData, "description"))
    /\ Empty(Get(done.value, "image")) = Empty(Get(done.tokenData, "image"))

C7_Witness ==
  /\ done.called
  /\ AllFailed(done.attempts)
  /\ Truthy(Get(done.tokenData, "uri"))
  /\ Truthy(Get(done.value, "description"))

\* The loop's attempts so far: gateway j on the j-th iteration, at most one
\* per gateway, and every attempt before the last one failed.
InListOrder(attempts) ==
  /\ Len(attempts) <= Len(IPFS_GATEWAYS)
  /\ \A j \in 1..Len(attempts) : attempts[j].gw = j
  /\ \A j \in 1..(Len(attempts) - 1) : attempts[j].result = "failed"

PathOf(uri) ==
  LET i == IndexOf(uri.s, <<IPFS_SEP>>) IN SubSeq(uri.s, i + 1, Len(uri.s))

\* C9: the k-th attempt fetches gateway k's base URL followed by the uri's
\* path, so attempts against different gateways fetch different URLs.
C9_AddressedToGateway ==
  \A p \in inflight :
    /\ \A k \in 1..Len(p.attempts) :
         p.attempts[k].url =
           Str(IPFS_GATEWAYS[k] \o PathOf(Get(p.tokenData, "uri")))
    /\ \A j, k \in 1..Len(p.attempts) :
         j # k => p.attempts[j].url # p.attempts[k].url

\* C10: for a create frame without a uri, enrichTokenData fetches nothing
\* and returns the raw event, every field unchanged.
C10_NoUriPassThrough ==
  /\ \A p \in inflight : Truthy(Get(p.tokenData, "uri"))
  /\ (done.called /\ ~Truthy(Get(done.tokenData, "uri"))) =>
       /\ done.attempts = <<>>
       /\ ~done.threw
       /\ done.value = done.tokenData

C10_Witness ==
  /\ done.called
  /\ "uri" \notin DOMAIN done.tokenData
  /\ done.attempts = <<>>
  /\ pushed # <<>>
  /\ pushed[Len(pushed)] = Get(done.tokenData, "mint")

\* The coinIds of the events pushed so far are numbers, each strictly larger
\* than every one assigned before it (so no two are the same), and the
\* events still waiting in the queue carry them.
IdsIncrease ==
  /\ \A i \in 1..Len(pushedIds) : pushedIds[i].t = "number"
  /\ \A i, j \in 1..Len(pushedIds) : i < j => pushedIds[i].n < pushedIds[j].n
  /\ \A i \in 1..Len(pushedIds) : pushedIds[i].n < nextCoinId
  /\ \A i \in 1..Len(eventQueue) :
       Get(eventQueue[i], "coinId") = pushedIds[Len(handed) + i]

\* C11 as claimed: every event the server queues carries a coinId, no two
\* events get the same coinId, and a coinId assigned later is strictly larger
\* than every coinId assigned before it.
C11_EveryEventHasCoinId == IdsIncrease /\ Len(pushedIds) = Len(pushed)

\* C11 amended: in the variant that assigns coinIds (server.js 1-229) every
\* queued event carries one, strictly larger than all assigned before it; the
\* three other variants queue their events without a coinId field.
C11_CoinIdsWhereAssigned ==
  /\ Len(pushedIds) = Len(pushed)
  /\ IF variant = "bundle" THEN IdsIncrease
     ELSE /\ \A i \in 1..Len(pushedIds) : pushedIds[i] = Undef
          /\ \A i \in 1..Len(eventQueue) : "coinId" \notin DOMAIN eventQueue[i]
          /\ nextCoinId = 0

C11_Witness ==
  /\ variant = "bundle"
  /\ Len(pushedIds) >= 4
  /\ Len(handed) >= 2
  /\ Len(eventQueue) >= 2

\* C12: a broadcast sends the same message to every client that is OPEN at
\* the call and to no other client; a client that is not OPEN is skipped
\* without an error, and the message is not sent again: what a tick sends is
\* the event it has just taken off the queue, which is handed on only once.
C12_OpenClientsOnly ==
  [][/\ \A c \in ClientIds : sent'[c] # <<>> => clients[c] = "OPEN"
     /\ \A c, d \in ClientIds :
          (sent'[c] # <<>> /\ sent'[d] # <<>>) => sent'[c] = sent'[d]
     /\ (PacerTick /\ Len(eventQueue) > 0) =>
          /\ \A c \in ClientIds :
               sent'[c] = IF clients[c] = "OPEN" THEN <<Head(eventQueue)>> ELSE <<>>
          /\ handed' = Append(handed, Get(Head(eventQueue), "mint"))
          /\ Times(handed', Get(Head(eventQueue), "mint")) = 1
          /\ \A i \in 1..Len(eventQueue') :
               Get(eventQueue'[i], "mint") # Get(Head(eventQueue), "mint")
     /\ \A c \in ClientIds :
          sent'[c] # <<>> => PacerTick \/ IsDecisionBundle(sent'[c][1])]_vars

\* One client was sent the event, another one, closing, was not, and a
\* later event waits.
C12_Witness ==
  /\ \E c, d \in ClientIds :
       /\ sent[c] # <<>>
       /\ Get(sent[c][1], "mint") = handed[Len(handed)]
       /\ clients[d] = "CLOSING"
       /\ sent[d] = <<>>
  /\ Len(handed) >= 1
  /\ Len(eventQueue) >= 1

\* A socket is down once it has reported an error or has closed.
Down(i) == Len(sockets) >= i /\ sockets[i].readyState \in {"CLOSING", "CLOSED"}

C14_SubscribeOnOpen ==
  [][/\ \A i \in 1..Len(sockets) :
          IF sockets[i].readyState = "CONNECTING" /\ sockets'[i].readyState = "OPEN"
          THEN sockets[i].subs = 0 /\ sockets'[i].subs = 1
          ELSE sockets'[i].subs = sockets[i].subs
     /\ \A i \in 1..Len(sockets') :
          sockets'[i].readyState = "CONNECTING" => sockets'[i].subs = 0
     /\ (nFrames' # nFrames \/ done'.called \/ "frame" \in DOMAIN done') =>
          \E i \in 1..Len(sockets) :
            sockets[i].readyState = "OPEN" /\ sockets[i].subs = 1]_vars

\* The second connection has opened and a create frame has come in on it;
\* the first one closed and got no second subscription.
C14_Witness ==
  /\ Len(sockets) >= 2
  /\ sockets[1] = [readyState |-> "CLOSED", subs |-> 1]
  /\ sockets[2] = [readyState |-> "OPEN", subs |-> 1]
  /\ done.called

\* C15: a frame that is not JSON, or whose txType is not "create", changes
\* nothing: eventQueue, nextCoinId and currentBundle are as before, no fetch
\* is started, nothing is sent to any client, and the socket stays OPEN with
\* the rest of the server's state untouched, so later frames are processed
\* as if the frame had never come.
C15_IgnoredFrameNoEffect ==
  [][\A raw \in OtherFrames :
       (("frame" \in DOMAIN done') /\ done'.frame = raw) =>
         /\ JsonParse(raw).threw \/ ~IsCreate(raw)
         /\ UNCHANGED <<eventQueue, nextCoinId, currentBundle>>
         /\ inflight' = inflight
         /\ ~done'.called
         /\ sent' = NothingSent
         /\ UNCHANGED serverState
         /\ \E i \in 1..Len(sockets') : sockets'[i].readyState = "OPEN"]_vars

\* A frame with txType "buy" has just been ignored while one create frame is
\* being enriched and another waits in the queue.
C15_Witness ==
  /\ "frame" \in DOMAIN done
  /\ done.frame = WireJson([txType |-> Str(<<"buy">>), mint |-> Mint(1)])
  /\ inflight # {}
  /\ Len(eventQueue) = 1
  /\ nextCoinId = 1

\* The ids assigned since the last decisionBundle, oldest first.
SinceLastBundle ==
  [k \in 1..(nextCoinId - BUNDLE_SIZE * Len(bundled)) |->
     BUNDLE_SIZE * Len(bundled) + k - 1]

\* C20: the step that assigns the 8th coinId since the last bundle
\* broadcasts one decisionBundle whose keys are exactly those 8 ids, each
\* mapped to "yes" or "no", and empties currentBundle; no other step
\* broadcasts a bundle; so currentBundle always holds fewer than 8 ids (the
\* ones assigned since the last bundle) and no coinId is in two bundles.
C20_DecisionBundles ==
  /\ [][nextCoinId' # nextCoinId =>
          LET keys == Range(currentBundle) \cup {nextCoinId}
          IN /\ nextCoinId' = nextCoinId + 1
             /\ IF Len(currentBundle) = BUNDLE_SIZE - 1
                THEN /\ Cardinality(keys) = BUNDLE_SIZE
                     /\ bundled' = Append(bundled, keys)
                     /\ currentBundle' = <<>>
                     /\ \A c \in ClientIds :
                          IF clients[c] = "OPEN"
                          THEN /\ Len(sent'[c]) = 1
                               /\ IsDecisionBundle(sent'[c][1])
                               /\ DOMAIN sent'[c][1].decisions = keys
                               /\ \A k \in keys :
                                    sent'[c][1].decisions[k] \in {"yes", "no"}
                          ELSE sent'[c] = <<>>
                ELSE /\ bundled' = bundled
                     /\ currentBundle' = Append(currentBundle, nextCoinId)
                     /\ sent' = NothingSent]_vars
  /\ [][nextCoinId' = nextCoinId =>
          /\ UNCHANGED <<bundled, currentBundle>>
          /\ \A c \in ClientIds :
               sent'[c] # <<>> => ~IsDecisionBundle(sent'[c][1])]_vars
  /\ [](/\ Len(currentBundle) < BUNDLE_SIZE
        /\ currentBundle = SinceLastBundle
        /\ \A i, j \in 1..Len(bundled) : i # j => bundled[i] \cap bundled[j] = {}
        /\ \A i \in 1..Len(bundled) : Cardinality(bundled[i]) = BUNDLE_SIZE)

\* The second bundle, for coinIds 8..15, has just reached the browser.
C20_Witness ==
  /\ Len(bundled) = 2
  /\ bundled[2] = 8..15
  /\ currentBundle = <<>>
  /\ \E c \in ClientIds :
       /\ sent[c] # <<>>
       /\ IsDecisionBundle(sent[c][1])
       /\ DOMAIN sent[c][1].decisions = 8..15

\* newer.y + newer.height + COIN_SPACING <= older.y for every adjacent pair.
NoOverlap(coins) ==
  \A i \in 1..(Len(coins) - 1) :
    coins[i].y + coins[i].height + COIN_SPACING <= coins[i + 1].y

\* C16: after every animation frame, whatever cards were inserted before it
\* and whatever time has passed, every adjacent pair of active cards is at
\* least the newer card's height plus the spacing apart.
C16_NoOverlapAfterFrame == seen.step = "frame" => NoOverlap(activeCoins)

\* Three cards after a frame that held the newest back against the card
\* below it.
C16_Witness ==
  /\ seen.step = "frame"
  /\ seen.deltaMs > 0
  /\ Len(activeCoins) = 3
  /\ activeCoins[1].y + activeCoins[1].height + COIN_SPACING = activeCoins[2].y
  /\ activeCoins[2].y + activeCoins[2].height + COIN_SPACING < activeCoins[3].y

CardIds(cards) == {c.id : c \in cards}

\* C17: no card stays in the active list with a position beyond the view:
\* the frame that moves a card past it removes the card; the cards a frame
\* removes are exactly ones it moved past the view; and a removed card is
\* never again in the active list (nor waiting to be inserted).
C17_RemovedInSameFrame ==
  /\ \A i \in 1..Len(activeCoins) : activeCoins[i].y <= ViewHeight
  /\ seen.step = "frame" =>
       \A c \in seen.evicted : c.y > ViewHeight /\ c.id \in goneCards
  /\ CardIds(Range(activeCoins)) \cap goneCards = {}
  /\ CardIds(pendingCards) \cap goneCards = {}
  /\ Cardinality(CardIds(Range(activeCoins))) = Len(activeCoins)
  /\ clientVariant = "canvas" =>
       CardIds(Range(activeCoins)) \cup CardIds(pendingCards) \cup goneCards
         = 1..nReceived

\* A frame has just removed a card, a newer card stays, and an earlier
\* card was removed by an earlier frame.
C17_Witness ==
  /\ seen.step = "frame"
  /\ seen.evicted # {}
  /\ Len(activeCoins) >= 1
  /\ Cardinality(goneCards) > Cardinality(seen.evicted)

\* C18: the active list is newest first by receipt: a card sits above
\* (before) every card whose message was received earlier, and a card that
\* has just been inserted is at index 0 with y = -height, also when the
\* cards are built asynchronously.
C18_NewestFirstByReceipt ==
  /\ \A i, j \in 1..Len(activeCoins) :
       i < j => activeCoins[i].id > activeCoins[j].id
  /\ (seen.step \in {"message", "built"} /\ seen.id \in CardIds(Range(activeCoins))) =>
       /\ activeCoins[1].id = seen.id
       /\ activeCoins[1].y = 0 - activeCoins[1].height

\* C19: in every page script a token frame, tagged or untagged, gives
\* exactly one card (on show, or being built), and a decisionBundle frame
\* gives none.
C19_BothShapesAccepted ==
  seen.step = "message" =>
    LET made == {c \in Range(activeCoins) \cup pendingCards : c.id = seen.id}
    IN IF seen.data \in {TaggedFrame(seen.id), UntaggedFrame(seen.id)}
       THEN Cardinality(made) = 1
       ELSE IsDecisionBundle(seen.data) => made = {}

\* No upstream socket is OPEN.
UpstreamDown == \A i \in 1..Len(sockets) : sockets[i].readyState # "OPEN"

\* C21: the pacer's timer being fair, the k-th event pushed onto eventQueue
\* is eventually the k-th event handed to broadcastToClients, for every k,
\* whether an upstream socket is open meanwhile or not.
C21_EveryEventHandedOn ==
  \A k \in 1..MaxEvents :
    (Len(pushed) >= k) ~> (Len(handed) >= k /\ handed[k] = pushed[k])

\* The upstream is down for good, one event has been handed on and
\* another still waits.
C21_Witness ==
  /\ UpstreamDown
  /\ Len(sockets) = MaxSockets
  /\ Len(handed) >= 1
  /\ Len(eventQueue) >= 1

\* The words of a text (its runs of characters that are no white space)
\* joined by single spaces.
RECURSIVE SkipSpace(_)
SkipSpace(s) ==
  IF s # <<>> /\ Head(s) \in WhiteSpace THEN SkipSpace(Tail(s)) ELSE s

RECURSIVE WordLen(_)
WordLen(s) ==
  IF s = <<>> \/ Head(s) \in WhiteSpace THEN 0 ELSE 1 + WordLen(Tail(s))

RECURSIVE JoinedWords(_)
JoinedWords(s) ==
  LET t == SkipSpace(s)
      k == WordLen(t)
      rest == SkipSpace(SubSeq(t, k + 1, Len(t)))
  IN IF t = <<>> THEN <<>>
     ELSE IF rest = <<>> THEN SubSeq(t, 1, k)
     ELSE SubSeq(t, 1, k) \o <<" ">> \o JoinedWords(rest)

LineBreaks == {"\n", "\r"}

SingleLine(s) == \A i \in 1..Len(s) : s[i] \notin LineBreaks

\* The document's description has been through the handler.
Described == call.fn = "description" /\ result.returned /\ IsString(call.arg)

\* The description of the event the handler queued.
QueuedDescription == Get(eventQueue[Len(eventQueue)], "description").s

Truncated(s) ==
  /\ eventQueue # <<>>
  /\ Len(QueuedDescription) = DESC_CAP + Len(ELLIPSIS)
  /\ QueuedDescription = SubSeq(JoinedWords(s), 1, DESC_CAP) \o ELLIPSIS
  /\ SingleLine(QueuedDescription)

\* C22 as stated: a source description longer than the cap of 35 characters
\* is queued as the first 35 characters of its normalised text followed by
\* "...", 38 characters with no line break.
C22_LongSourceTruncated ==
  (Described /\ Len(call.arg.s) > DESC_CAP) => Truncated(call.arg.s)

\* C22, amended: a description whose normalised text (line breaks turned to
\* spaces, white space collapsed, trimmed) is longer than 35 characters is
\* queued as the first 35 characters of that text followed by "...", 38
\* characters with no line break.
C22_LongNormalisedTruncated ==
  (Described /\ Len(JoinedWords(call.arg.s)) > DESC_CAP) => Truncated(call.arg.s)

C22_Witness ==
  /\ Described
  /\ Len(JoinedWords(call.arg.s)) > DESC_CAP
  /\ ~SingleLine(call.arg.s)
  /\ Len(QueuedDescription) = DESC_CAP + Len(ELLIPSIS)

QueuedDescriptions ==
  {Get(eventQueue[i], "description") : i \in 1..Len(eventQueue)}

EndsWith(s, t) ==
  Len(s) >= Len(t) /\ SubSeq(s, Len(s) - Len(t) + 1, Len(s)) = t

\* C23 as stated: every event queued by a refining variant has a single-line
\* description of at most 35 characters.
C23_DescriptionWithinCap ==
  variant \in Refining =>
    \A d \in QueuedDescriptions :
      IsString(d) /\ SingleLine(d.s) /\ Len(d.s) <= DESC_CAP

\* C23, amended: every event queued by a refining variant has a single-line
\* description of at most 38 characters, and one longer than 35 characters
\* is 35 characters followed by "...".
C23_DescriptionWithinCapAndMarker ==
  variant \in Refining =>
    \A d \in QueuedDescriptions :
      /\ IsString(d)
      /\ SingleLine(d.s)
      /\ Len(d.s) <= DESC_CAP + Len(ELLIPSIS)
      /\ Len(d.s) > DESC_CAP =>
           Len(d.s) = DESC_CAP + Len(ELLIPSIS) /\ EndsWith(d.s, ELLIPSIS)

C23_Witness ==
  /\ Described
  /\ variant = "refine"
  /\ ~SingleLine(call.arg.s)
  /\ \E d \in QueuedDescriptions : Len(d.s) > DESC_CAP /\ SingleLine(d.s)

\* The image URL has been through processMetadataImage.
Converted == call.fn = "image" /\ result.returned

\* What follows the occurrences of "/ipfs/" in a URL.
AfterIpfs(u) == {SubSeq(u, i + 1, Len(u)) : i \in {j \in 1..Len(u) : u[j] = IPFS_SEP}}

\* C24: processMetadataImage turns every URL with an "/ipfs/" segment into the
\* pump.mypinata.cloud URL of what follows that segment, returns a URL
\* without one unchanged, and returns "" for a missing URL.
C24_IpfsImageRewritten ==
  Converted =>
    /\ ~result.threw
    /\ IF ~Truthy(call.arg) THEN result.value = Str(<<>>)
       ELSE IF AfterIpfs(call.arg.s) = {} THEN result.value = call.arg
       ELSE \E hash \in AfterIpfs(call.arg.s) :
              result.value = Str(PINATA_PREFIX \o hash \o PINATA_QUERY)

\* The card with identifier id in a list of cards.
CardOf(cards, id) == CHOOSE c \in Range(cards) : c.id = id

\* The cards on show that have been through a frame update.
Framed == CardIds(Range(activeCoins)) \ fresh

\* C25: in an animation frame with a non-negative elapsed time, no card that
\* has been through an earlier frame update moves up: if it stays on show,
\* its position after the frame is at least its position before, whatever
\* cards were inserted since the last frame.
C25_NeverMovesUp ==
  [][seen'.step = "frame" =>
       \A id \in Framed \cap CardIds(Range(activeCoins')) :
         CardOf(activeCoins', id).y >= CardOf(activeCoins, id).y]_vars

\* A frame has moved a card for at least the third time, below a card that
\* was inserted after it and is held back against it.
C25_Witness ==
  /\ seen.step = "frame"
  /\ seen.deltaMs > 0
  /\ Len(activeCoins) >= 2
  /\ activeCoins[2].y >= 2 * FLOW_SPEED[clientVariant]
  /\ activeCoins[1].y + activeCoins[1].height + COIN_SPACING = activeCoins[2].y

\* The identifiers of a list of cards, in list order.
IdsOf(cards) == [i \in 1..Len(cards) |-> cards[i].id]

\* C26: the cards an animation frame removes are a suffix of the active
\* list: the list after the frame is a prefix of the list before it, the same
\* cards in the same order, so no card goes while an older card stays.
C26_EvictsSuffix ==
  [][seen'.step = "frame" =>
       /\ Len(activeCoins') <= Len(activeCoins)
       /\ IdsOf(activeCoins') = SubSeq(IdsOf(activeCoins), 1, Len(activeCoins'))
       /\ CardIds(seen'.evicted) =
            {activeCoins[i].id : i \in (Len(activeCoins') + 1)..Len(activeCoins)}]_vars

\* A frame has removed the oldest card and left two newer ones in place.
C26_Witness ==
  /\ seen.step = "frame"
  /\ seen.evicted # {}
  /\ Len(activeCoins) = 2
  /\ \A c \in seen.evicted : \A i \in 1..2 : c.y > activeCoins[i].y

\* The cards a step leaves: those on show and those the frame removed.
CardsAfter ==
  Range(activeCoins') \cup (IF seen'.step = "frame" THEN seen'.evicted ELSE {})

FinalColorFor(cId) == IF coinDecisions[cId] = "yes" THEN GREEN ELSE RED

\* C27: a card's strobe becomes active only in a frame in which a decision
\* for its coinId is known and the card is below STROBE_LINE, and its final
\* colour is then green if that decision is "yes" and red otherwise; an
\* active strobe stays active, with the start time and the final colour it
\* was given, whatever decisionBundle arrives later.
C27_StrobeOnce ==
  [][\A c \in Range(activeCoins) : \A d \in CardsAfter :
       d.id = c.id =>
         IF c.strobeActive
         THEN /\ d.strobeActive
              /\ d.finalColor = c.finalColor
              /\ d.strobeStartTime =
                   c.strobeStartTime
                     - (IF seen'.step = "frame" /\ d \notin seen'.evicted
                        THEN seen'.deltaMs ELSE 0)
         ELSE d.strobeActive =>
                /\ seen'.step = "frame"
                /\ DecisionKnown(c.coinId)
                /\ d.y > STROBE_LINE
                /\ d.finalColor = FinalColorFor(c.coinId)]_vars

\* A card that went green, after its strobe has ended, while the decision
\* for its coinId now says "no".
C27_Witness ==
  \E i \in 1..Len(activeCoins) :
    LET c == activeCoins[i]
    IN /\ c.strobeActive
       /\ c.finalColor = GREEN
       /\ c.overlay = [tint |-> GREEN, alpha |-> FINAL_OPACITY]
       /\ coinDecisions[c.coinId] = "no"

CoinIdsOf(q) == [i \in 1..Len(q) |-> Get(q[i], "coinId")]

\* C28: in the bundling server the queue is in strictly increasing coinId
\* order and is handed on from its head, so the newToken messages a client
\* gets have strictly increasing coinIds; the step that assigns a coinId is
\* the step that puts the id in the bundle and the event on the queue, and
\* no other step does any of the three.
C28_QueueInCoinIdOrder ==
  /\ [](/\ \A i, j \in 1..Len(eventQueue) :
             i < j => CoinIdsOf(eventQueue)[i].n < CoinIdsOf(eventQueue)[j].n
        /\ pushed = handed \o MintsOf(eventQueue)
        /\ CoinIdsOf(eventQueue) =
             [i \in 1..Len(eventQueue) |-> Num(Len(handed) + i - 1)]
        /\ nextCoinId = Len(pushed))
  /\ [][\A c \in ClientIds :
          sent'[c] # <<>> /\ ~IsDecisionBundle(sent'[c][1]) =>
            /\ sent'[c] = <<Head(eventQueue)>>
            /\ eventQueue' = Tail(eventQueue)
            /\ Get(sent'[c][1], "coinId") = Num(Len(handed))
            /\ Len(handed') = Len(handed) + 1]_vars
  /\ [][IF nextCoinId' # nextCoinId
        THEN /\ nextCoinId' = nextCoinId + 1
             /\ Len(eventQueue') = Len(eventQueue) + 1
             /\ SubSeq(eventQueue', 1, Len(eventQueue)) = eventQueue
             /\ Get(eventQueue'[Len(eventQueue')], "coinId") = Num(nextCoinId)
             /\ \/ currentBundle' = Append(currentBundle, nextCoinId)
                \/ /\ currentBundle' = <<>>
                   /\ bundled' = Append(bundled, Range(currentBundle) \cup {nextCoinId})
        ELSE /\ Len(eventQueue') <= Len(eventQueue)
             /\ UNCHANGED <<currentBundle, bundled>>]_vars

\* Two events whose enrichments completed against the order of arrival:
\* the later frame got the smaller coinId, and the browser has just been
\* sent the earlier frame's event.
C28_Witness ==
  /\ handed = <<Mint(2), Mint(1)>>
  /\ \E c \in Viewer :
       /\ Len(sent[c]) = 1
       /\ Get(sent[c][1], "mint") = Mint(1)
       /\ Get(sent[c][1], "coinId") = Num(1)

\* The coinIds whose decisionBundle has been broadcast.
Decided == UNION Range(bundled)

\* C29: the step that closes a bundle broadcasts the decisionBundle naming
\* the closing coin and only queues that coin's newToken, so the newToken is
\* handed on in a later step; and a decision is sent to a connection only in
\* that one step and only if it is OPEN then, so a connection that was not
\* open when a bundle was broadcast never learns its decisions, also when it
\* is open for the newToken.
C29_BundleBeforeNewToken ==
  /\ [](\A b \in 1..(Len(handed) \div BUNDLE_SIZE) : Len(bundled) >= b)
  /\ [][bundled' # bundled =>
          /\ handed' = handed
          /\ Len(handed) <= nextCoinId
          /\ Get(eventQueue'[Len(eventQueue')], "coinId") = Num(nextCoinId)
          /\ nextCoinId \in bundled'[Len(bundled')]
          /\ \A c \in ClientIds :
               sent'[c] =
                 IF clients[c] = "OPEN"
                 THEN <<[type |-> Str(<<"decisionBundle">>),
                         decisions |-> sent'[c][1].decisions]>>
                 ELSE <<>>]_vars
  /\ [][\A c \in ClientIds : \A k \in learned'[c] \ learned[c] :
          /\ clients[c] = "OPEN"
          /\ bundled' # bundled
          /\ k \in bundled'[Len(bundled')]
          /\ k \in DOMAIN sent'[c][1].decisions]_vars
  /\ [][\A c \in ClientIds : \A k \in Decided \ learned[c] : k \notin learned'[c]]_vars

\* The browser connected after the first bundle was broadcast: it has just
\* been sent the newToken of coin 7, which closed that bundle, and has no
\* decision for it.
C29_Witness ==
  \E c \in Viewer :
    /\ clients[c] = "OPEN"
    /\ Len(sent[c]) = 1
    /\ Get(sent[c][1], "coinId") = Num(BUNDLE_SIZE - 1)
    /\ (BUNDLE_SIZE - 1) \in Decided
    /\ (BUNDLE_SIZE - 1) \notin learned[c]

\* C30: a pacer tick with a non-empty queue takes the head off the queue
\* whatever the clients' states are; with no client OPEN the event is sent
\* to nobody and counted for nobody; and it is not put back: no event is on
\* the queue after it was handed on.
C30_DequeuesWithoutClients ==
  /\ [][(PacerTick /\ eventQueue # <<>>) =>
          /\ eventQueue' = Tail(eventQueue)
          /\ handed' = Append(handed, Get(Head(eventQueue), "mint"))
          /\ pushed' = pushed
          /\ OpenClients = {} => (sent' = NothingSent /\ UNCHANGED counterVars)]_vars
  /\ [](\A i \in 1..Len(handed) : \A j \in 1..Len(eventQueue) :
          handed[i] # Get(eventQueue[j], "mint"))

\* The byte-counting server has handed on two events with no client OPEN,
\* nothing was sent or counted, and more events wait.
C30_Witness ==
  /\ variant = "logged"
  /\ OpenClients = {}
  /\ Len(handed) >= 2
  /\ eventQueue # <<>>
  /\ sent = NothingSent
  /\ messagesThisMinute = 0

\* The upstream sockets that are connecting or connected.
Live == {i \in 1..Len(sockets) : sockets[i].readyState \in {"CONNECTING", "OPEN"}}

\* The sockets a step closes.
ClosedNow ==
  {i \in 1..Len(sockets) :
     sockets[i].readyState # "CLOSED" /\ sockets'[i].readyState = "CLOSED"}

\* C31: the upstream sockets that are connecting or connected and the
\* pending reconnect timers are never more than one in total; a timer is
\* scheduled only by the step that closes a socket, one per close, and a
\* closed socket stays closed; a step in which a socket reports an error
\* schedules none and creates no socket; and a socket is created only by a
\* step that takes the expired timer away.
C31_OneAttemptAtATime ==
  /\ [](Cardinality(Live) + Len(timers) <= 1)
  /\ [][/\ Len(timers') = Len(timers) + Cardinality(ClosedNow) - (Len(sockets') - Len(sockets))
        /\ Cardinality(ClosedNow) <= 1
        /\ \A i \in 1..Len(sockets) :
             /\ sockets[i].readyState = "CLOSED" => sockets'[i].readyState = "CLOSED"
             /\ (sockets[i].readyState # "CLOSING" /\ sockets'[i].readyState = "CLOSING") =>
                  timers' = timers /\ Len(sockets') = Len(sockets)
        /\ Len(sockets') # Len(sockets) =>
             /\ Len(sockets') = Len(sockets) + 1
             /\ timers # <<>>
             /\ timers' = Tail(timers)
             /\ ClosedNow = {}
             /\ sockets'[Len(sockets')].readyState = "CONNECTING"]_vars

\* The first socket has closed and its one reconnect has been made; the
\* second socket has then reported an error: nothing is live and no timer
\* is pending until it closes.
C31_Witness ==
  /\ Len(sockets) = 2
  /\ sockets[1].readyState = "CLOSED"
  /\ sockets[2].readyState = "CLOSING"
  /\ timers = <<>>

====
